---- MODULE Spec2Model ----
(***************************************************************************)
(* State-machine model of expenses.py (Project-S3-main): one SQLite table  *)
(* `expenses` with an AUTOINCREMENT key, the Tk handlers that mutate and   *)
(* read it, the aggregate queries, the CSV export and the recommendation   *)
(* rules.                                                                  *)
(*                                                                         *)
(* A Python str / SQLite TEXT value is a TLA+ string; Chars gives its      *)
(* characters, and every parser, formatter and comparison (strptime,       *)
(* float, SQLite's strftime and BINARY collation, str.contains,            *)
(* csv.writer) is computed on the characters.  A REAL / Python float is a  *)
(* record [k, v]: k = "fin" with v the value in units of 10^-FracDigits,   *)
(* or k = "inf", "ninf", "nan".  Rounding of binary floating point is not  *)
(* modelled; the amount texts of the model have at most FracDigits         *)
(* fractional digits and no exponent.                                      *)
(***************************************************************************)
EXTENDS Integers, Sequences, FiniteSets, TLC

VARIABLES
    expenses,         \* rows of table `expenses`: <<id, date, category, amount>>
    sqlite_sequence,  \* sqlite_sequence.seq for 'expenses'; 0 when the row is absent
    expenses_tree,    \* rows shown in the Treeview, in display order
    status_label,     \* lines of text shown in status_label
    total_label,      \* title and value shown in total_label
    figure,           \* data handed to matplotlib by the chart command that is showing
                      \* (plt.show() returns when the window is closed)
    csv_file,         \* the export destination: [exists, lines]
    command,          \* the last button command and the inputs it read
    issued            \* history: ids assigned since the last sequence reset

vars == <<expenses, sqlite_sequence, expenses_tree, status_label, total_label,
          figure, csv_file, command, issued>>

(***************************************************************************)
(* Bounds                                                                  *)
(***************************************************************************)
MaxId == 4        \* ids are assigned up to MaxId
MaxRows == 3      \* the table holds at most MaxRows rows
FracDigits == 1   \* fractional digits carried by a float value

(***************************************************************************)
(* Characters and text                                                     *)
(***************************************************************************)
Chars ==
    ("" :> <<>>)
    @@ ("2024-01-05" :> <<"2", "0", "2", "4", "-", "0", "1", "-", "0", "5">>)
    @@ ("2024-02-01" :> <<"2", "0", "2", "4", "-", "0", "2", "-", "0", "1">>)
    @@ ("2024-1-5" :> <<"2", "0", "2", "4", "-", "1", "-", "5">>)
    @@ ("2024-02-30" :> <<"2", "0", "2", "4", "-", "0", "2", "-", "3", "0">>)
    @@ ("Food" :> <<"F", "o", "o", "d">>)
    @@ ("Dining Out" :> <<"D", "i", "n", "i", "n", "g", " ", "O", "u", "t">>)
    @@ ("dining out" :> <<"d", "i", "n", "i", "n", "g", " ", "o", "u", "t">>)
    @@ ("Entertainment" :>
            <<"E", "n", "t", "e", "r", "t", "a", "i", "n", "m", "e", "n", "t">>)
    @@ ("a,b" :> <<"a", ",", "b">>)
    @@ ("0" :> <<"0">>)
    @@ ("1" :> <<"1">>)
    @@ ("3" :> <<"3">>)
    @@ ("2.5" :> <<"2", ".", "5">>)
    @@ ("-5" :> <<"-", "5">>)
    @@ ("abc" :> <<"a", "b", "c">>)
    @@ ("inf" :> <<"i", "n", "f">>)
    @@ ("ID" :> <<"I", "D">>)
    @@ ("Date" :> <<"D", "a", "t", "e">>)
    @@ ("Category" :> <<"C", "a", "t", "e", "g", "o", "r", "y">>)
    @@ ("Amount" :> <<"A", "m", "o", "u", "n", "t">>)

Digits == <<"0", "1", "2", "3", "4", "5", "6", "7", "8", "9">>
DigitChars == {Digits[i] : i \in DOMAIN Digits}
DigitValue == [c \in DigitChars |-> (CHOOSE i \in DOMAIN Digits : Digits[i] = c) - 1]

UpperCase == <<"A", "B", "C", "D", "E", "F", "G", "H", "I", "J", "K", "L", "M",
               "N", "O", "P", "Q", "R", "S", "T", "U", "V", "W", "X", "Y", "Z">>
LowerCase == <<"a", "b", "c", "d", "e", "f", "g", "h", "i", "j", "k", "l", "m",
               "n", "o", "p", "q", "r", "s", "t", "u", "v", "w", "x", "y", "z">>
UpperChars == {UpperCase[i] : i \in DOMAIN UpperCase}
LowerOf == [c \in UpperChars |-> LowerCase[CHOOSE i \in DOMAIN UpperCase : UpperCase[i] = c]]

IsDigit(c) == c \in DigitChars
DigitVal(c) == DigitValue[c]

\* byte value of a character of a date text, as memcmp sees it
Ord(c) ==
    IF c = " " THEN 32
    ELSE IF c = "-" THEN 45
    ELSE IF IsDigit(c) THEN 48 + DigitVal(c)
    ELSE 127

ToLower(c) == IF c \in UpperChars THEN LowerOf[c] ELSE c
Lower(s) == [i \in DOMAIN s |-> ToLower(s[i])]

AllDigits(s) == \A i \in DOMAIN s : IsDigit(s[i])

RECURSIVE DecValue(_)
DecValue(s) ==
    IF s = <<>> THEN 0
    ELSE 10 * DecValue(SubSeq(s, 1, Len(s) - 1)) + DigitVal(s[Len(s)])

RECURSIVE DecText(_)
DecText(n) ==
    IF n < 10 THEN <<Digits[n + 1]>>
    ELSE Append(DecText(n \div 10), Digits[(n % 10) + 1])

RECURSIVE ZeroPad(_, _)
ZeroPad(s, width) == IF Len(s) >= width THEN s ELSE ZeroPad(<<"0">> \o s, width)

\* BINARY collation: memcmp on the common prefix, then the shorter text first
RECURSIVE TextLess(_, _)
TextLess(a, b) ==
    IF b = <<>> THEN FALSE
    ELSE IF a = <<>> THEN TRUE
    ELSE IF Ord(a[1]) # Ord(b[1]) THEN Ord(a[1]) < Ord(b[1])
    ELSE TextLess(Tail(a), Tail(b))

TextLeq(a, b) == a = b \/ TextLess(a, b)

\* substring test
Contains(s, pat) ==
    \E i \in 0..(Len(s) - Len(pat)) : SubSeq(s, i + 1, i + Len(pat)) = pat

(***************************************************************************)
(* datetime.strptime(date_text, "%Y-%m-%d")                                *)
(***************************************************************************)
ValueError == <<"ValueError">>

IsLeap(y) == (y % 4 = 0 /\ y % 100 # 0) \/ y % 400 = 0
DaysInMonth(y, m) ==
    IF m = 2 THEN (IF IsLeap(y) THEN 29 ELSE 28)
    ELSE IF m \in {4, 6, 9, 11} THEN 30 ELSE 31

\* %m : 1[0-2]|0[1-9]|[1-9]
MatchMonth(s) ==
    /\ Len(s) \in {1, 2}
    /\ AllDigits(s)
    /\ DecValue(s) \in 1..12

\* %d : 3[01]|[12]\d|0[1-9]|[1-9]| [1-9]
MatchDay(s) ==
    \/ Len(s) \in {1, 2} /\ AllDigits(s) /\ DecValue(s) \in 1..31
    \/ Len(s) = 2 /\ s[1] = " " /\ IsDigit(s[2]) /\ s[2] # "0"

DayValue(s) == IF s[1] = " " THEN DigitVal(s[2]) ELSE DecValue(s)

\* the fields <<%Y, %m, %d>> of a text that matches the whole format
DateFields(s) ==
    { f \in { <<SubSeq(s, 1, 4), SubSeq(s, 6, 5 + ml), SubSeq(s, 7 + ml, Len(s))>> :
                ml \in {n \in {1, 2} : Len(s) >= 7 + n /\ s[5] = "-" /\ s[6 + n] = "-"} } :
        /\ AllDigits(f[1])
        /\ MatchMonth(f[2])
        /\ MatchDay(f[3]) }

\* the date as <<year, month, day>>, or ValueError
strptime(s) ==
    IF DateFields(s) = {} THEN ValueError
    ELSE LET f == CHOOSE x \in DateFields(s) : TRUE
             y == DecValue(f[1])
             m == DecValue(f[2])
             d == DayValue(f[3])
         IN  IF y >= 1 /\ d <= DaysInMonth(y, m) THEN <<y, m, d>> ELSE ValueError

validate_date(date_text) == strptime(Chars[date_text]) # ValueError

(***************************************************************************)
(* float(amount_text) and float arithmetic                                 *)
(***************************************************************************)
RECURSIVE Pow10(_)
Pow10(n) == IF n = 0 THEN 1 ELSE 10 * Pow10(n - 1)
Scale == Pow10(FracDigits)

Fin(v) == [k |-> "fin", v |-> v]
Inf == [k |-> "inf", v |-> 0]
NegInf == [k |-> "ninf", v |-> 0]
NaN == [k |-> "nan", v |-> 0]
FloatError == [k |-> "ValueError", v |-> 0]

RECURSIVE LStrip(_)
LStrip(s) == IF s # <<>> /\ s[1] = " " THEN LStrip(Tail(s)) ELSE s
RECURSIVE RStrip(_)
RStrip(s) ==
    IF s # <<>> /\ s[Len(s)] = " " THEN RStrip(SubSeq(s, 1, Len(s) - 1)) ELSE s
Strip(s) == RStrip(LStrip(s))

\* digits [ "." digits ] with at least one digit
DotPos(s) == {i \in DOMAIN s : s[i] = "."}
ParseDecimal(s) ==
    IF DotPos(s) = {} THEN
        IF s # <<>> /\ AllDigits(s) THEN Fin(Scale * DecValue(s)) ELSE FloatError
    ELSE LET p == CHOOSE i \in DotPos(s) : TRUE
             ip == SubSeq(s, 1, p - 1)
             fp == SubSeq(s, p + 1, Len(s))
         IN  IF /\ AllDigits(ip) /\ AllDigits(fp)
                /\ Len(ip) + Len(fp) >= 1
                /\ Len(fp) <= FracDigits
             THEN Fin(Scale * DecValue(ip) + DecValue(fp) * Pow10(FracDigits - Len(fp)))
             ELSE FloatError

ParseUnsigned(s) ==
    IF Lower(s) \in {<<"i", "n", "f">>, <<"i", "n", "f", "i", "n", "i", "t", "y">>} THEN Inf
    ELSE IF Lower(s) = <<"n", "a", "n">> THEN NaN
    ELSE ParseDecimal(s)

FNeg(x) == IF x.k = "fin" THEN Fin(0 - x.v) ELSE IF x.k = "inf" THEN NegInf ELSE x

float(amount_text) ==
    LET s == Strip(Chars[amount_text]) IN
    IF s = <<>> THEN FloatError
    ELSE IF s[1] = "+" THEN ParseUnsigned(Tail(s))
    ELSE IF s[1] = "-" THEN FNeg(ParseUnsigned(Tail(s)))
    ELSE ParseUnsigned(s)

\* x > 0
FPositive(x) == (x.k = "fin" /\ x.v > 0) \/ x.k = "inf"

\* x + y
FAdd(x, y) ==
    IF x.k = "nan" \/ y.k = "nan" THEN NaN
    ELSE IF x.k = "fin" /\ y.k = "fin" THEN Fin(x.v + y.v)
    ELSE IF x.k = "fin" THEN y
    ELSE IF y.k = "fin" \/ y.k = x.k THEN x
    ELSE NaN

\* x - y
FSub(x, y) == FAdd(x, FNeg(y))

\* x > y * (pct / 100), for y that is not negative
FGtPct(x, y, pct) ==
    IF x.k = "nan" \/ y.k = "nan" THEN FALSE
    ELSE IF x.k = "ninf" \/ y.k = "inf" THEN FALSE
    ELSE IF x.k = "inf" THEN TRUE
    ELSE x.v * 100 > y.v * pct

validate_amount(amount_text) ==
    LET x == float(amount_text) IN
    IF x.k = "ValueError" THEN FALSE ELSE FPositive(x)

\* repr(float), as csv.writer renders it
RECURSIVE TrimZeros(_)
TrimZeros(s) ==
    IF Len(s) > 1 /\ s[Len(s)] = "0" THEN TrimZeros(SubSeq(s, 1, Len(s) - 1)) ELSE s

FloatRepr(x) ==
    IF x.k = "inf" THEN <<"i", "n", "f">>
    ELSE IF x.k = "nan" THEN <<"n", "a", "n">>
    ELSE DecText(x.v \div Scale) \o <<".">>
         \o TrimZeros(ZeroPad(DecText(x.v % Scale), FracDigits))

(***************************************************************************)
(* The SQLite table and the queries the handlers run                       *)
(***************************************************************************)
NULL == <<"NULL">>

Max(a, b) == IF a >= b THEN a ELSE b

RowIds(rows) == {r[1] : r \in rows}
MaxRowid(rows) ==
    IF rows = {} THEN 0 ELSE CHOOSE i \in RowIds(rows) : \A j \in RowIds(rows) : j <= i

\* a table declared without AUTOINCREMENT: one more than the largest rowid held
PlainRowid(rows, seq) == MaxRowid(rows) + 1

\* id INTEGER PRIMARY KEY AUTOINCREMENT: one more than the largest rowid that
\* the table holds or that sqlite_sequence remembers
AutoincrementRowid(rows, seq) == Max(seq, MaxRowid(rows)) + 1

\* an INSERT that binds date and category in the wrong order
InsertSwapped(rows, seq, date, category, amount) ==
    rows \cup {<<AutoincrementRowid(rows, seq), category, date, amount>>}

\* INSERT INTO expenses (date, category, amount) VALUES (?, ?, ?)
InsertInto(rows, seq, date, category, amount) ==
    rows \cup {<<AutoincrementRowid(rows, seq), date, category, amount>>}

\* DELETE FROM expenses WHERE id = ?, once for each selected item
DeleteWhereId(rows, ids) == {r \in rows : r[1] \notin ids}

\* SELECT * FROM expenses : a scan of the table in rowid order
RECURSIVE SelectAll(_)
SelectAll(rows) ==
    IF rows = {} THEN <<>>
    ELSE LET last == CHOOSE r \in rows : \A q \in rows : q[1] <= r[1]
         IN  Append(SelectAll(rows \ {last}), last)

\* SELECT * FROM expenses WHERE date BETWEEN ? AND ?   (TEXT, BINARY collation)
Between(date, start_date, end_date) ==
    /\ TextLeq(Chars[start_date], Chars[date])
    /\ TextLeq(Chars[date], Chars[end_date])
SelectBetween(rows, start_date, end_date) ==
    SelectAll({r \in rows : Between(r[2], start_date, end_date)})

\* SQLite's date parser on a TEXT value: YYYY-MM-DD with a two-digit month
\* 01..12 and a two-digit day 01..31; anything else is not a date
SqliteDate(s) ==
    IF /\ Len(s) = 10
       /\ s[5] = "-" /\ s[8] = "-"
       /\ AllDigits(SubSeq(s, 1, 4))
       /\ AllDigits(SubSeq(s, 6, 7))
       /\ AllDigits(SubSeq(s, 9, 10))
       /\ DecValue(SubSeq(s, 6, 7)) \in 1..12
       /\ DecValue(SubSeq(s, 9, 10)) \in 1..31
    THEN <<DecValue(SubSeq(s, 1, 4)), DecValue(SubSeq(s, 6, 7)), DecValue(SubSeq(s, 9, 10))>>
    ELSE NULL

\* strftime('%Y-%m', date), as characters: NULL for a text that is not a date;
\* a day past the end of its month rolls over into the next month
strftime_Ym(date) ==
    LET ymd == SqliteDate(Chars[date]) IN
    IF ymd = NULL THEN NULL
    ELSE LET over == ymd[3] > DaysInMonth(ymd[1], ymd[2])
             m == IF over THEN (IF ymd[2] = 12 THEN 1 ELSE ymd[2] + 1) ELSE ymd[2]
             y == IF over /\ ymd[2] = 12 THEN ymd[1] + 1 ELSE ymd[1]
         IN  ZeroPad(DecText(y), 4) \o <<"-">> \o ZeroPad(DecText(m), 2)

\* sum(row[3] for row in rows) / SUM(amount)
RECURSIVE SumAmounts(_)
SumAmounts(rowseq) ==
    IF rowseq = <<>> THEN Fin(0)
    ELSE FAdd(SumAmounts(SubSeq(rowseq, 1, Len(rowseq) - 1)), rowseq[Len(rowseq)][4])

\* SELECT strftime('%Y-%m', date) as month, SUM(amount) FROM expenses GROUP BY month
MonthlyTotals(rows) ==
    [month \in {strftime_Ym(r[2]) : r \in rows} |->
        SumAmounts(SelectAll({r \in rows : strftime_Ym(r[2]) = month}))]

\* SELECT category, SUM(amount) FROM expenses GROUP BY category
CategoryTotals(rows) ==
    [category \in {r[3] : r \in rows} |->
        SumAmounts(SelectAll({r \in rows : r[3] = category}))]

\* Series.sum() over the groups selected by keys
RECURSIVE SumGroups(_, _)
SumGroups(totals, keys) ==
    IF keys = {} THEN Fin(0)
    ELSE LET key == CHOOSE x \in keys : TRUE
         IN  FAdd(totals[key], SumGroups(totals, keys \ {key}))

(***************************************************************************)
(* get_spending_insights                                                   *)
(***************************************************************************)
DiningMessage == "Consider reducing spending on dining out to save more."
EntertainmentMessage == "Think about cutting down on entertainment expenses."
AffirmingMessage == "You're doing great! Keep up the good work."

\* Series.str.contains(pattern, case=False)
StrContains(text, pattern) == Contains(Lower(Chars[text]), Lower(Chars[pattern]))

\* the selection without case=False
MatchingCaseSensitive(df, pattern) ==
    {c \in DOMAIN df : Contains(Chars[c], Chars[pattern])}

\* the groups of df that df["Category"].str.contains(pattern, case=False) selects
Matching(df, pattern) == {c \in DOMAIN df : StrContains(c, pattern)}

get_spending_insights(rows) ==
    LET df == CategoryTotals(rows)
        total_spent == SumGroups(df, DOMAIN df)
        dining_spent == SumGroups(df, Matching(df, "Dining Out"))
        entertainment_spent == SumGroups(df, Matching(df, "Entertainment"))
        dining == IF FGtPct(dining_spent, total_spent, 20)
                  THEN <<DiningMessage>> ELSE <<>>
        entertainment == IF FGtPct(entertainment_spent, total_spent, 15)
                         THEN <<EntertainmentMessage>> ELSE <<>>
        recommendations == dining \o entertainment
    IN  IF recommendations = <<>> THEN <<AffirmingMessage>> ELSE recommendations

(***************************************************************************)
(* csv.writer                                                              *)
(***************************************************************************)
\* QUOTE_MINIMAL: a field holding the delimiter or the quote character is quoted
RECURSIVE DoubleQuotes(_)
DoubleQuotes(s) ==
    IF s = <<>> THEN <<>>
    ELSE (IF s[1] = "\"" THEN <<"\"", "\"">> ELSE <<s[1]>>) \o DoubleQuotes(Tail(s))

CsvField(s) ==
    IF \E i \in DOMAIN s : s[i] \in {",", "\""}
    THEN <<"\"">> \o DoubleQuotes(s) \o <<"\"">>
    ELSE s

RECURSIVE Join(_)
Join(fields) ==
    IF Len(fields) = 1 THEN CsvField(fields[1])
    ELSE Join(SubSeq(fields, 1, Len(fields) - 1)) \o <<",">> \o CsvField(fields[Len(fields)])

\* writer.writerow(["ID", "Date", "Category", "Amount"])
HeaderLine == Join(<<Chars["ID"], Chars["Date"], Chars["Category"], Chars["Amount"]>>)

\* the line writer.writerows writes for one row
RowLine(row) == Join(<<DecText(row[1]), Chars[row[2]], Chars[row[3]], FloatRepr(row[4])>>)

\* the lines of a complete export of rows
CsvLines(rowseq) == <<HeaderLine>> \o [i \in DOMAIN rowseq |-> RowLine(rowseq[i])]

(***************************************************************************)
(* Inputs                                                                  *)
(***************************************************************************)
\* the texts typed into date_entry, category_entry and amount_entry
Inputs ==
    { <<"2024-01-05", "Food", "3">>,
      <<"2024-1-5", "Food", "2.5">>,
      <<"2024-02-01", "Food", "inf">>,
      <<"2024-02-30", "Food", "1">>,
      <<"", "", "">>,
      <<"2024-01-05", "", "abc">>,
      <<"2024-01-05", "Food", "0">>,
      <<"2024-01-05", "Food", "-5">>,
      <<"2024-01-05", "Food", "abc">> }

\* the texts typed when the aggregates and the recommendations are exercised
AggregateInputs ==
    { <<"2024-01-05", "Food", "3">>,
      <<"2024-01-05", "Dining Out", "1">>,
      <<"2024-02-01", "dining out", "1">>,
      <<"2024-1-5", "Entertainment", "1">>,
      <<"2024-02-01", "Entertainment", "inf">>,
      <<"2024-02-01", "", "1">> }

\* the texts typed when the export is exercised
ExportInputs ==
    { <<"2024-01-05", "Food", "3">>,
      <<"2024-02-01", "a,b", "2.5">>,
      <<"2024-02-30", "Food", "1">> }

\* the dates the two Calendar widgets return (date_pattern yyyy-mm-dd)
CalendarDates == {"2024-01-05", "2024-02-01"}

(***************************************************************************)
(* State and handlers                                                      *)
(***************************************************************************)
NoFigure == [kind |-> "none", data |-> <<>>]
NoFile == [exists |-> FALSE, lines |-> <<>>]

Command(name) ==
    [name |-> name, date |-> "", category |-> "", amount |-> "",
     selected_items |-> {}, start_date |-> "", end_date |-> "",
     file_path |-> FALSE, fault |-> "none"]

TotalExpense(rowseq) == [title |-> "Total Expense", total |-> SumAmounts(rowseq)]

\* a new expenses.db: the table is created empty, sqlite_sequence has no row,
\* and the module ends its set-up with view_expenses()
Init ==
    /\ expenses = {}
    /\ sqlite_sequence = 0
    /\ expenses_tree = <<>>
    /\ status_label = <<"">>
    /\ total_label = TotalExpense(<<>>)
    /\ figure = NoFigure
    /\ csv_file = NoFile
    /\ command = Command("view_expenses")
    /\ issued = {}

\* view_expenses(), on the table as the handler's statements leave it
view_expenses(rows) ==
    /\ expenses_tree' = SelectAll(rows)
    /\ total_label' = TotalExpense(SelectAll(rows))

\* a validation chain that checks the amount first
RejectionAmountFirst(date, category, amount) ==
    IF ~validate_amount(amount) THEN "Invalid amount! Enter a positive number."
    ELSE IF ~validate_date(date) THEN "Invalid date! Use YYYY-MM-DD format."
    ELSE IF category = "" THEN "Category cannot be empty."
    ELSE ""

\* the validation chain of add_expense: the message of the first check that
\* fails, "" when all three pass
Rejection(date, category, amount) ==
    IF ~validate_date(date) THEN "Invalid date! Use YYYY-MM-DD format."
    ELSE IF category = "" THEN "Category cannot be empty."
    ELSE IF ~validate_amount(amount) THEN "Invalid amount! Enter a positive number."
    ELSE ""

add_expense(date, category, amount) ==
    /\ command' = [Command("add_expense") EXCEPT
                     !.date = date, !.category = category, !.amount = amount]
    /\ figure' = NoFigure
    /\ UNCHANGED csv_file
    /\ IF Rejection(date, category, amount) # "" THEN
           /\ status_label' = <<Rejection(date, category, amount)>>
           /\ UNCHANGED <<expenses, sqlite_sequence, expenses_tree, total_label, issued>>
       ELSE
           /\ AutoincrementRowid(expenses, sqlite_sequence) <= MaxId
           /\ Cardinality(expenses) < MaxRows
           /\ expenses' = InsertInto(expenses, sqlite_sequence, date, category, float(amount))
           /\ sqlite_sequence' = AutoincrementRowid(expenses, sqlite_sequence)
           /\ issued' = issued \cup {AutoincrementRowid(expenses, sqlite_sequence)}
           /\ status_label' = <<"Expense added successfully!">>
           /\ view_expenses(expenses')

\* a delete that never clears sqlite_sequence
SequenceKept(count, seq) == seq

\* SELECT COUNT(*) FROM expenses; if count == 0: DELETE FROM sqlite_sequence
SequenceAfterDelete(count, seq) == IF count = 0 THEN 0 ELSE seq

\* selected_items: the ids of the rows selected in the Treeview
delete_expense(selected_items) ==
    /\ command' = [Command("delete_expense") EXCEPT !.selected_items = selected_items]
    /\ figure' = NoFigure
    /\ UNCHANGED csv_file
    /\ IF selected_items # {} THEN
           /\ expenses' = DeleteWhereId(expenses, selected_items)
           /\ status_label' = <<"Selected expenses deleted successfully!">>
           /\ view_expenses(expenses')
           /\ sqlite_sequence' = SequenceAfterDelete(Cardinality(expenses'), sqlite_sequence)
           /\ issued' = IF sqlite_sequence' = 0 THEN {} ELSE issued
       ELSE
           /\ status_label' = <<"Please select an expense to delete!">>
           /\ UNCHANGED <<expenses, sqlite_sequence, expenses_tree, total_label, issued>>

delete_all_expenses ==
    /\ command' = Command("delete_all_expenses")
    /\ figure' = NoFigure
    /\ UNCHANGED csv_file
    /\ expenses' = {}
    /\ sqlite_sequence' = 0
    /\ issued' = {}
    /\ status_label' = <<"All expenses deleted successfully!">>
    /\ view_expenses(expenses')

generate_report(start_date, end_date) ==
    LET rows == SelectBetween(expenses, start_date, end_date) IN
    /\ command' = [Command("generate_report") EXCEPT
                     !.start_date = start_date, !.end_date = end_date]
    /\ figure' = NoFigure
    /\ expenses_tree' = rows
    /\ total_label' = [title |-> "Total from to", total |-> SumAmounts(rows)]
    /\ status_label' = <<"Report generated for selected date range.">>
    /\ UNCHANGED <<expenses, sqlite_sequence, csv_file, issued>>

generate_spending_chart ==
    /\ command' = Command("generate_spending_chart")
    /\ figure' = [kind |-> "bar", data |-> MonthlyTotals(expenses)]
    /\ UNCHANGED <<expenses, sqlite_sequence, expenses_tree, status_label,
                   total_label, csv_file, issued>>

generate_category_pie_chart ==
    /\ command' = Command("generate_category_pie_chart")
    /\ figure' = [kind |-> "pie", data |-> CategoryTotals(expenses)]
    /\ UNCHANGED <<expenses, sqlite_sequence, expenses_tree, status_label,
                   total_label, csv_file, issued>>

display_recommendations ==
    /\ command' = Command("display_recommendations")
    /\ figure' = NoFigure
    /\ status_label' = <<"Recommendations:">> \o get_spending_insights(expenses)
    /\ UNCHANGED <<expenses, sqlite_sequence, expenses_tree, total_label,
                   csv_file, issued>>

\* file_path: whether the save dialog returned a path; fault: where the
\* operating system fails the export ("none", "open", "write")
export_to_csv(file_path, fault) ==
    LET lines == CsvLines(SelectAll(expenses)) IN
    /\ command' = [Command("export_to_csv") EXCEPT !.file_path = file_path, !.fault = fault]
    /\ figure' = NoFigure
    /\ UNCHANGED <<expenses, sqlite_sequence, expenses_tree, total_label, issued>>
    /\ IF ~file_path THEN
           /\ fault = "none"
           /\ UNCHANGED <<csv_file, status_label>>
       ELSE IF fault = "open" THEN
           \* open() raises: the destination is not touched
           /\ status_label' = <<"Error exporting data">>
           /\ UNCHANGED csv_file
       ELSE IF fault = "write" THEN
           \* open(mode="w") has truncated the file; a write or the closing
           \* flush raises when only some of the lines have reached it
           /\ status_label' = <<"Error exporting data">>
           /\ \E n \in 0..(Len(lines) - 1) :
                  csv_file' = [exists |-> TRUE, lines |-> SubSeq(lines, 1, n)]
       ELSE
           /\ status_label' = <<"Data exported successfully!">>
           /\ csv_file' = [exists |-> TRUE, lines |-> lines]

\* the ids of the rows the Treeview shows
TreeIds == {expenses_tree[i][1] : i \in DOMAIN expenses_tree}

Next ==
    \/ \E t \in Inputs : add_expense(t[1], t[2], t[3])
    \/ \E selected_items \in SUBSET TreeIds : delete_expense(selected_items)
    \/ delete_all_expenses
    \/ \E start_date \in CalendarDates, end_date \in CalendarDates :
           generate_report(start_date, end_date)

Spec == Init /\ [][Next]_vars

NextAggregates ==
    \/ \E t \in AggregateInputs : add_expense(t[1], t[2], t[3])
    \/ \E selected_items \in SUBSET TreeIds : delete_expense(selected_items)
    \/ delete_all_expenses
    \/ generate_spending_chart
    \/ generate_category_pie_chart
    \/ display_recommendations

SpecAggregates == Init /\ [][NextAggregates]_vars

NextExport ==
    \/ \E t \in ExportInputs : add_expense(t[1], t[2], t[3])
    \/ \E selected_items \in SUBSET TreeIds : delete_expense(selected_items)
    \/ delete_all_expenses
    \/ \E file_path \in BOOLEAN, fault \in {"none", "open", "write"} :
           export_to_csv(file_path, fault)

SpecExport == Init /\ [][NextExport]_vars

(***************************************************************************)
(* Properties                                                              *)
(***************************************************************************)
\* list_all() and total(list_all())
ListAll(rows) == SelectAll(rows)
Total(rows) == SumAmounts(SelectAll(rows))

\* the step is an add_expense that inserted a row
AddedStep ==
    /\ command'.name = "add_expense"
    /\ status_label' = <<"Expense added successfully!">>

\* the step is an add_expense that validation rejected
RejectedStep ==
    /\ command'.name = "add_expense"
    /\ status_label' # <<"Expense added successfully!">>

\* the step is a delete_expense with rows selected
DeletedStep ==
    /\ command'.name = "delete_expense"
    /\ command'.selected_items # {}

\* C1: when delete_all, or a delete of selected ids that covers every stored
\* row, has emptied the store, list_all() is empty and the next id is 1; and an
\* add that succeeds on an empty store yields the single expense with id 1.
C1_EmptyStoreResetsIds ==
    [][ /\ ( \/ command'.name = "delete_all_expenses"
             \/ (DeletedStep /\ RowIds(expenses) \subseteq command'.selected_items) )
           => /\ ListAll(expenses') = <<>>
              /\ AutoincrementRowid(expenses', sqlite_sequence') = 1
        /\ (AddedStep /\ expenses = {})
           => RowIds(expenses') = {1} ]_vars

\* the store has just been emptied by a delete of selected ids after at least
\* two ids had been assigned, and the sequence is back at its start
C1_Witness ==
    /\ command.name = "delete_expense"
    /\ 2 \in command.selected_items
    /\ expenses = {}
    /\ sqlite_sequence = 0

\* C2: no two stored expenses share an id, and every successful add assigns an
\* id greater than every id assigned since the last reset of the sequence.
C2_IdsUniqueAndIncreasing ==
    [][ /\ \A r \in expenses', q \in expenses' : r[1] = q[1] => r = q
        /\ AddedStep
           => \E r \in expenses' \ expenses :
                 /\ r[1] \notin issued
                 /\ \A i \in issued : i < r[1] ]_vars

\* an add has just assigned id 3 while id 2, the highest at the time it was
\* deleted, is free and the store was never empty in between
C2_Witness ==
    /\ command.name = "add_expense"
    /\ status_label = <<"Expense added successfully!">>
    /\ RowIds(expenses) = {1, 3}
    /\ issued = {1, 2, 3}

\* a date text in zero-padded fixed-width YYYY-MM-DD form that is a calendar date
IsIsoDate(s) ==
    /\ Len(s) = 10
    /\ s[5] = "-" /\ s[8] = "-"
    /\ AllDigits(SubSeq(s, 1, 4) \o SubSeq(s, 6, 7) \o SubSeq(s, 9, 10))
    /\ DecValue(SubSeq(s, 1, 4)) >= 1
    /\ DecValue(SubSeq(s, 6, 7)) \in 1..12
    /\ DecValue(SubSeq(s, 9, 10)) \in
           1..DaysInMonth(DecValue(SubSeq(s, 1, 4)), DecValue(SubSeq(s, 6, 7)))

\* C3: every stored expense has a calendar date in zero-padded fixed-width
\* YYYY-MM-DD form, a non-empty category and an amount greater than zero.
C3_StoredExpensesValid ==
    \A r \in expenses :
        /\ IsIsoDate(Chars[r[2]])
        /\ r[3] # ""
        /\ FPositive(r[4])

\* C4: a successful add appends to list_all() exactly one expense that carries
\* the date, category and amount that were entered, under an id no stored
\* expense holds; every expense stored before is still there, unchanged.
C4_AddAppendsOneExpense ==
    [][ AddedStep
        => \E id \in 1..MaxId :
              /\ id \notin RowIds(expenses)
              /\ ListAll(expenses') =
                     Append(ListAll(expenses),
                            <<id, command'.date, command'.category, float(command'.amount)>>)
              /\ expenses \subseteq expenses' ]_vars

\* an add has just succeeded on a store that already held an expense
C4_Witness ==
    /\ command.name = "add_expense"
    /\ status_label = <<"Expense added successfully!">>
    /\ Cardinality(expenses) >= 2
    /\ Len(ListAll(expenses)) = Cardinality(expenses)

\* C5: delete removes exactly the stored expenses whose id is selected, leaves
\* every other expense unchanged, and the total of the remaining expenses is
\* the total before minus the total of the removed ones.
C5_DeleteRemovesExactlySelected ==
    [][ DeletedStep
        => /\ expenses' = {r \in expenses : r[1] \notin command'.selected_items}
           /\ Total(expenses') =
                  FSub(Total(expenses),
                       Total({r \in expenses : r[1] \in command'.selected_items})) ]_vars

\* C6: an add that validation rejects leaves the stored expenses and the
\* identifier sequence as they were, so the next id is the same, and the
\* message names the first check that fails in the order date, category, amount.
C6_RejectedAddChangesNothing ==
    [][ RejectedStep
        => /\ expenses' = expenses
           /\ sqlite_sequence' = sqlite_sequence
           /\ AutoincrementRowid(expenses', sqlite_sequence') =
                  AutoincrementRowid(expenses, sqlite_sequence)
           /\ status_label' =
                  << IF ~validate_date(command'.date)
                         THEN "Invalid date! Use YYYY-MM-DD format."
                     ELSE IF command'.category = ""
                         THEN "Category cannot be empty."
                     ELSE "Invalid amount! Enter a positive number." >>
           /\ \/ ~validate_date(command'.date)
              \/ command'.category = ""
              \/ ~validate_amount(command'.amount) ]_vars

\* an add with an empty category and a non-numeric amount has just been
\* rejected for its category on a store that holds expenses
C6_Witness ==
    /\ command.name = "add_expense"
    /\ command.category = ""
    /\ command.amount = "abc"
    /\ status_label = <<"Category cannot be empty.">>
    /\ expenses # {}
    /\ sqlite_sequence > Cardinality(expenses)

\* calendar order of two dates <<year, month, day>>
DateLeq(a, b) ==
    \/ a[1] < b[1]
    \/ a[1] = b[1] /\ a[2] < b[2]
    \/ a[1] = b[1] /\ a[2] = b[2] /\ a[3] <= b[3]

CalendarDate(date) == strptime(Chars[date])

\* C7: for d1 <= d2, list_between(d1, d2) is exactly the expenses of list_all()
\* whose date lies between d1 and d2, both included, in storage order, and the
\* store is not modified.
C7_ReportIsInclusiveRange ==
    [][ ( /\ command'.name = "generate_report"
          /\ DateLeq(CalendarDate(command'.start_date), CalendarDate(command'.end_date)) )
        => /\ expenses_tree' =
                  ListAll({r \in expenses :
                              /\ DateLeq(CalendarDate(command'.start_date), CalendarDate(r[2]))
                              /\ DateLeq(CalendarDate(r[2]), CalendarDate(command'.end_date))})
           /\ expenses' = expenses
           /\ sqlite_sequence' = sqlite_sequence ]_vars

\* the first seven characters of a stored date
MonthPrefix(date) == SubSeq(Chars[date], 1, 7)

\* C8: monthly_totals() has one key per distinct YYYY-MM prefix of a stored
\* date, category_totals() one key per distinct category, and the group totals
\* of each add up to total(list_all()).
C8_AggregatesConsistent ==
    /\ figure.kind = "bar"
       => /\ DOMAIN figure.data = {MonthPrefix(r[2]) : r \in expenses}
          /\ SumGroups(figure.data, DOMAIN figure.data) = Total(expenses)
    /\ figure.kind = "pie"
       => /\ DOMAIN figure.data = {r[3] : r \in expenses}
          /\ SumGroups(figure.data, DOMAIN figure.data) = Total(expenses)

\* the messages of recommendations() when the dining rule and the
\* entertainment rule fire as given
Messages(dining, entertainment) ==
    IF ~dining /\ ~entertainment THEN <<AffirmingMessage>>
    ELSE (IF dining THEN <<DiningMessage>> ELSE <<>>)
         \o (IF entertainment THEN <<EntertainmentMessage>> ELSE <<>>)

\* some single category whose name contains pattern has a total over pct percent
\* of the total spent
SingleCategoryOver(rows, pattern, pct) ==
    \E c \in {r[3] : r \in rows} :
        /\ StrContains(c, pattern)
        /\ FGtPct(Total({r \in rows : r[3] = c}), Total(rows), pct)

\* the expenses whose category name contains pattern total over pct percent of
\* the total spent
CombinedOver(rows, pattern, pct) ==
    FGtPct(Total({r \in rows : StrContains(r[3], pattern)}), Total(rows), pct)

\* C9 as stated: each suggestion is emitted exactly when one single matching
\* category exceeds its share of total_spent.
C9_SingleCategoryRule ==
    command.name = "display_recommendations"
    => status_label = <<"Recommendations:">>
           \o Messages(SingleCategoryOver(expenses, "Dining Out", 20),
                       SingleCategoryOver(expenses, "Entertainment", 15))

\* C9: the dining suggestion is emitted exactly when the expenses of all
\* categories whose name contains "Dining Out" (ignoring case) together exceed
\* 20% of total_spent, the entertainment suggestion exactly when those of all
\* categories containing "Entertainment" together exceed 15%; dining comes
\* first, and the affirming message is returned exactly when neither fires.
C9_CombinedCategoryRule ==
    command.name = "display_recommendations"
    => status_label = <<"Recommendations:">>
           \o Messages(CombinedOver(expenses, "Dining Out", 20),
                       CombinedOver(expenses, "Entertainment", 15))

\* the recommendations have just been shown for a store where the dining
\* categories exceed 20% together but none of them does alone
C9_Witness ==
    /\ command.name = "display_recommendations"
    /\ CombinedOver(expenses, "Dining Out", 20)
    /\ ~SingleCategoryOver(expenses, "Dining Out", 20)
    /\ status_label = <<"Recommendations:", DiningMessage>>

\* C10: an export that succeeds leaves the header and one line per stored
\* expense in the destination, an export that fails leaves the destination as
\* it was, and the store is unchanged either way.
C10_ExportAllOrNothing ==
    [][ (command'.name = "export_to_csv" /\ command'.file_path)
        => /\ expenses' = expenses
           /\ \/ /\ status_label' = <<"Data exported successfully!">>
                 /\ csv_file' = [exists |-> TRUE, lines |-> CsvLines(ListAll(expenses))]
              \/ /\ status_label' = <<"Error exporting data">>
                 /\ csv_file' = csv_file ]_vars

====
